---------------------------- MODULE Spec2Model ----------------------------
(***************************************************************************)
(* Model of TomcatWatcher (src/TomcatLib.py): line correlation into keyed  *)
(* records, and the sliding-window evictor, driven one line at a time by   *)
(* log_thread (src/watch_tomcat_log.py).                                   *)
(*                                                                         *)
(* A log line is modelled by what the regular expressions extract from it: *)
(*   kind  the payload pattern that matches first (or the shape of a line  *)
(*         that is not general-form),                                      *)
(*   key   servlet + id with "-ka" removed (None for unkeyed lines),       *)
(*   ts    the embedded timestamp in microseconds (0 for unkeyed lines),   *)
(*   a, b  the integers captured by the pattern (0 where it captures none) *)
(* The free-text captures (version, query, who, fid, forward, via, sql,    *)
(* dbacq, error) are one fixed text each.                                  *)
(***************************************************************************)
EXTENDS Integers, Sequences, FiniteSets, TLC

\* ---------------------------------------------------------------- bounds
\* MaxLines: length of the input stream; MaxThreadLines: its length when the
\* threads of watch_tomcat_log.py are interleaved; MaxTime: largest timestamp;
\* window_length_V: the configured window (window_length_V), in the unit of MaxTime.
MaxLines == 4
MaxThreadLines == 2
MaxTime == 3
window_length_V == 1

\* ------------------------------------------------------- program constants
status_queued == "queued"
status_exec == "executing"
status_stop == "finished"
finish_normal == "ok"
finish_error == "aborted"

None == "None"
Inf == -1
NoError == "none"

Keys == {"FrontierPrep293476", "FrontierPrep293477"}
Times == 1..MaxTime
Threads == {2}
Msecs == {120}
KaValues == {2, 3}
Text == "text"

UpdateKinds == {"dbacq", "dbfin", "rowssize", "stop", "sql", "acq", "exe",
                "kaacq", "error", "client"}
KeyedKinds == UpdateKinds \cup {"nomatch"}
UnkeyedKinds == {"trace", "frame", "unforeseen", "blank"}

Line(kind, key, ts, a, b) == [kind |-> kind, key |-> key, ts |-> ts, a |-> a, b |-> b]

VARIABLES data_D, history_H, oldest_start_time, newest_stop_time, _last_key,
          exc, lineno, line, dropped, ka_sum, corr

\* The threads of watch_tomcat_log.py: the shutdown event, the position of
\* main, log_thread and print_thread, the local dropped_key of update(), the
\* summary print_thread is assembling, the one it printed last, and the
\* summaries of the line boundaries log_thread has reached.
VARIABLES signal, pc_main, pc_log, pc_print, update_dropped_key, lines, printed, boundaries

tvars == <<signal, pc_main, pc_log, pc_print, update_dropped_key, lines, printed, boundaries>>

vars == <<data_D, history_H, oldest_start_time, newest_stop_time, _last_key,
          exc, lineno, line, dropped, ka_sum, corr, tvars>>

\* ------------------------------------------------------------ Record Store
\* RecordTable lives in Utils, which is not part of the sources at hand; its
\* operations follow the interface contract of the specification (4.4).
Contains(D, key) == key \in DOMAIN D

Insert(D, key, record) ==
    [k \in DOMAIN D \cup {key} |-> IF k = key THEN record ELSE D[k]]

Merge(record, update) ==
    [f \in DOMAIN record \cup DOMAIN update |->
        IF f \in DOMAIN update THEN update[f] ELSE record[f]]

\* data_D.render_record(key, field): fails when the key is absent; callers
\* test Contains first and raise StoreError.
render_record(D, key, field) == D[key][field]

Delete(D, key) == [k \in DOMAIN D \ {key} |-> D[k]]

Count(D) == Cardinality(DOMAIN D)

\* ------------------------------------------------------------ watcher state
\* The watcher as one value, so that the methods compose as in the code.
Watcher(D, H, oldest, newest, last) ==
    [D |-> D, H |-> H, oldest |-> oldest, newest |-> newest, last |-> last,
     exc |-> NoError, log |-> <<>>]

\* data_D.modify(key, update): fails when the key is absent.
modify(w, key, update) ==
    IF Contains(w.D, key)
    THEN [w EXCEPT !.D = [@ EXCEPT ![key] = Merge(@, update)]]
    ELSE [w EXCEPT !.exc = "StoreError"]

\* finish_record with the comparison of line 265 left out: newest_stop_time is
\* overwritten by every finish.
finish_record_overwrite(w, key, timestamp, finish_mode) ==
    LET update == [time_stop |-> timestamp, state |-> status_stop,
                   finish_mode |-> finish_mode]
        m == modify(w, key, update)
    IN IF m.exc # NoError THEN m ELSE [m EXCEPT !.newest = timestamp]

finish_record(w, key, timestamp, finish_mode) ==
    LET update == [time_stop |-> timestamp, state |-> status_stop,
                   finish_mode |-> finish_mode]
        m == modify(w, key, update)
    IN IF m.exc # NoError THEN m
       ELSE IF m.newest < timestamp THEN [m EXCEPT !.newest = timestamp]
       ELSE m

start_record(l) ==
    [servlet |-> "FrontierPrep", version |-> Text, query |-> Text, who |-> Text,
     fid |-> Text, threads_start |-> l.a, time_start |-> l.ts,
     state |-> status_queued, keepalives |-> 0]

\* start_branch that keeps the record of a key already in the store (insert
\* only when the key is new).
start_branch_keep(w, l) ==
    LET o == IF w.oldest = Inf \/ w.oldest > l.ts THEN l.ts ELSE w.oldest
    IN [w EXCEPT !.oldest = o,
                 !.D = IF Contains(w.D, l.key) THEN w.D
                       ELSE Insert(w.D, l.key, start_record(l)),
                 !.H = Append(w.H, l.key)]

\* start_branch that also moves newest_stop_time up to the start timestamp.
start_branch_touch(w, l) ==
    LET o == IF w.oldest = Inf \/ w.oldest > l.ts THEN l.ts ELSE w.oldest
    IN [w EXCEPT !.oldest = o,
                 !.newest = IF @ < l.ts THEN l.ts ELSE @,
                 !.D = Insert(w.D, l.key, start_record(l)),
                 !.H = Append(w.H, l.key)]

\* start_branch without the history_H.append of line 162.
start_branch_noappend(w, l) ==
    LET o == IF w.oldest = Inf \/ w.oldest > l.ts THEN l.ts ELSE w.oldest
    IN [w EXCEPT !.oldest = o,
                 !.D = Insert(w.D, l.key, start_record(l))]

start_branch(w, l) ==
    LET o == IF w.oldest = Inf \/ w.oldest > l.ts THEN l.ts ELSE w.oldest
    IN [w EXCEPT !.oldest = o,
                 !.D = Insert(w.D, l.key, start_record(l)),
                 !.H = Append(w.H, l.key)]

\* keepalive_update without the read of the current value: the counter is
\* replaced, not incremented.
keepalive_replace(record, n) == [keepalives |-> n]

keepalive_update(record, n) == [keepalives |-> record.keepalives + n]

payload_update(w, l) ==
    CASE l.kind = "dbacq" -> modify(w, l.key, [active_acq |-> l.a, msecs_acq |-> l.b])
      [] l.kind = "dbfin" -> modify(w, l.key, [msecs_finish |-> l.a])
      [] l.kind = "rowssize" -> modify(w, l.key, [rows |-> l.a, size |-> l.b])
      [] l.kind = "stop" ->
            LET m == modify(w, l.key, [msecs_stop |-> l.b, threads_stop |-> l.a])
            IN IF m.exc # NoError THEN m
               ELSE finish_record(m, l.key, l.ts, finish_normal)
      [] l.kind = "sql" -> modify(w, l.key, [sql |-> Text])
      [] l.kind = "acq" -> modify(w, l.key, [dbacq |-> Text])
      [] l.kind = "exe" -> modify(w, l.key, [state |-> status_exec])
      [] l.kind = "kaacq" -> modify(w, l.key, keepalive_update(w.D[l.key], l.a))
      [] l.kind = "error" -> modify(w, l.key, [error |-> Text])
      [] OTHER -> w

\* known_key_guard with the last active key assigned before the membership
\* test instead of inside it.
known_key_guard_eager(w, l) ==
    IF Contains(w.D, l.key)
    THEN payload_update([w EXCEPT !.last = l.key], l)
    ELSE [w EXCEPT !.last = l.key]

known_key_guard(w, l) ==
    IF Contains(w.D, l.key)
    THEN payload_update([w EXCEPT !.last = l.key], l)
    ELSE w

trace_branch(w) ==
    IF w.last # None
    THEN [w EXCEPT !.exc = "UnboundLocalError"]
    ELSE w

parse_log_line(w, l) ==
    CASE l.kind = "blank" -> w
      [] l.kind = "start" -> start_branch(w, l)
      [] l.kind \in KeyedKinds -> known_key_guard(w, l)
      [] l.kind = "trace" -> trace_branch(w)
      [] OTHER -> w

\* ------------------------------------------------------------------ evictor
span_exceeds(w) == w.oldest # Inf /\ w.newest - w.oldest > window_length_V

\* deque.pop in place of deque.popleft: the key comes from the right end.
pop(H) == H[Len(H)]

popleft(H) == Head(H)

RECURSIVE update(_)
update(w) ==
    IF ~span_exceeds(w) THEN w
    ELSE IF w.H = <<>> THEN [w EXCEPT !.exc = "IndexError"]
    ELSE LET dropped_key == popleft(w.H)
             rest == Tail(w.H)
         IN IF ~Contains(w.D, dropped_key)
            THEN [w EXCEPT !.H = rest, !.exc = "StoreError"]
            ELSE update([w EXCEPT !.H = rest,
                                  !.oldest = render_record(w.D, dropped_key, "time_start"),
                                  !.D = Delete(w.D, dropped_key),
                                  !.log = Append(@, [key |-> dropped_key,
                                                     D |-> w.D, H |-> w.H])])

advance_records(w, l) ==
    LET p == parse_log_line(w, l)
    IN IF p.exc # NoError THEN p ELSE update(p)

\* ------------------------------------------------------------------- ghosts
\* ka_sum[k]: sum of the keepalive values applied to k since the start line
\* that created its record.
ka_next(w, l) ==
    [k \in DOMAIN w.D |->
        IF l.key = k /\ l.kind = "start" THEN 0
        ELSE IF l.key = k /\ l.kind = "kaacq" THEN ka_sum[k] + l.a
        ELSE ka_sum[k]]

\* corr: the key of the last start line, with gap = 0 right after it, gap = 1
\* once one or more lines followed, none of them a keyed line for another id,
\* and gap = 2 when a failure trace has just been read after those.
NoCorr == [key |-> None, gap |-> 0]

corr_next(l) ==
    IF l.kind = "start" THEN [key |-> l.key, gap |-> 0]
    ELSE IF corr.key = None \/ corr.gap = 2 THEN NoCorr
    ELSE IF l.kind = "trace" THEN (IF corr.gap = 1 THEN [key |-> corr.key, gap |-> 2] ELSE NoCorr)
    ELSE IF l.key # None /\ l.key # corr.key THEN NoCorr
    ELSE [key |-> corr.key, gap |-> 1]

\* --------------------------------------------------------- reader summaries
\* current_window_length_secs: the span, minus infinity before any start.
current_window_length(oldest, newest) ==
    IF oldest = Inf THEN [inf |-> TRUE, usecs |-> 0]
    ELSE [inf |-> FALSE, usecs |-> newest - oldest]

NoSummary == [span |-> [inf |-> TRUE, usecs |-> 0], tam |-> -1, count |-> -1]

\* What print_thread prints when it reads span, len(tw) and the store count
\* in one state.
SummaryOf(oldest, newest, H, D) ==
    [span |-> current_window_length(oldest, newest), tam |-> Len(H), count |-> Count(D)]

ThreadsInit ==
    /\ signal = FALSE
    /\ pc_main = "sleep"
    /\ pc_log = "wait"
    /\ pc_print = "top"
    /\ update_dropped_key = None
    /\ lines = NoSummary
    /\ printed = NoSummary
    /\ boundaries = {SummaryOf(Inf, 0, <<>>, <<>>)}

\* ------------------------------------------------------------------ actions
Init ==
    /\ ThreadsInit
    /\ data_D = <<>>
    /\ history_H = <<>>
    /\ oldest_start_time = Inf
    /\ newest_stop_time = 0
    /\ _last_key = None
    /\ exc = NoError
    /\ lineno = 0
    /\ line = Line("none", None, 0, 0, 0)
    /\ dropped = <<>>
    /\ ka_sum = <<>>
    /\ corr = NoCorr

\* log_thread: one iteration of the loop, tw.advance_records(line).  An
\* exception leaving advance_records ends the thread: no line is read after.
Reading == exc = NoError /\ lineno < MaxLines

Ingest(l) ==
    /\ lineno' = lineno + 1
    /\ \E w \in {advance_records(Watcher(data_D, history_H, oldest_start_time,
                                        newest_stop_time, _last_key), l)} :
          /\ data_D' = w.D
          /\ history_H' = w.H
          /\ oldest_start_time' = w.oldest
          /\ newest_stop_time' = w.newest
          /\ _last_key' = w.last
          /\ exc' = w.exc
          /\ dropped' = w.log
          /\ ka_sum' = ka_next(w, l)
    /\ line' = l
    /\ corr' = corr_next(l)
    /\ UNCHANGED tvars

\* The timestamp of a line is used by the start and stop branches only; the
\* other keyed lines carry one fixed timestamp.
StartLine == Reading /\ \E k \in Keys, t \in Times : Ingest(Line("start", k, t, 1, 0))
DbAcquiredLine == Reading /\ \E k \in Keys : Ingest(Line("dbacq", k, MaxTime, 1, 120))
DbFinishedLine == Reading /\ \E k \in Keys : Ingest(Line("dbfin", k, MaxTime, 120, 0))
RowsSizeLine == Reading /\ \E k \in Keys : Ingest(Line("rowssize", k, MaxTime, 1, 120))
StopLine == Reading /\ \E k \in Keys, t \in Times, n \in Threads, m \in Msecs : Ingest(Line("stop", k, t, n, m))
SqlLine == Reading /\ \E k \in Keys : Ingest(Line("sql", k, MaxTime, 0, 0))
AcquiringLine == Reading /\ \E k \in Keys : Ingest(Line("acq", k, MaxTime, 0, 0))
ExecutingLine == Reading /\ \E k \in Keys : Ingest(Line("exe", k, MaxTime, 0, 0))
KeepaliveLine == Reading /\ \E k \in Keys, n \in KaValues : Ingest(Line("kaacq", k, MaxTime, n, 0))
ErrorLine == Reading /\ \E k \in Keys : Ingest(Line("error", k, MaxTime, 0, 0))
ClientLine == Reading /\ \E k \in Keys : Ingest(Line("client", k, MaxTime, 0, 0))
NoMatchLine == Reading /\ \E k \in Keys : Ingest(Line("nomatch", k, MaxTime, 0, 0))
TraceLine == Reading /\ Ingest(Line("trace", None, 0, 0, 0))
FrameLine == Reading /\ Ingest(Line("frame", None, 0, 0, 0))
UnforeseenLine == Reading /\ Ingest(Line("unforeseen", None, 0, 0, 0))
BlankLine == Reading /\ Ingest(Line("blank", None, 0, 0, 0))

Next ==
    \/ StartLine
    \/ DbAcquiredLine
    \/ DbFinishedLine
    \/ RowsSizeLine
    \/ StopLine
    \/ SqlLine
    \/ AcquiringLine
    \/ ExecutingLine
    \/ KeepaliveLine
    \/ ErrorLine
    \/ ClientLine
    \/ NoMatchLine
    \/ TraceLine
    \/ FrameLine
    \/ UnforeseenLine
    \/ BlankLine

Spec == Init /\ [][Next]_vars

\* ------------------------------------------------------------------ threads
\* The same watcher with log_thread, print_thread and main interleaved at the
\* statements of advance_records: between the insert and the append of the
\* start branch, and between popleft, render_record and del in update().
InputLines ==
    {Line("start", k, t, 1, 0) : k \in Keys, t \in Times} \cup
    {Line("stop", k, t, 2, 120) : k \in Keys, t \in Times}

Self == Watcher(data_D, history_H, oldest_start_time, newest_stop_time, _last_key)

ghosts == <<dropped, ka_sum, corr>>
store == <<data_D, history_H, oldest_start_time, newest_stop_time, _last_key>>
others == <<signal, pc_main, pc_print, lines, printed>>

\* for line in fileinput.input(): a line arrives.
LogRead ==
    /\ pc_log = "wait" /\ lineno < MaxThreadLines
    /\ \E l \in InputLines : line' = l
    /\ lineno' = lineno + 1
    /\ pc_log' = "parse"
    /\ UNCHANGED <<store, exc, ghosts, others, update_dropped_key, boundaries>>

\* The input ends: the for loop is left.
LogEof ==
    /\ pc_log = "wait"
    /\ pc_log' = "done"
    /\ UNCHANGED <<store, exc, lineno, line, ghosts, others, update_dropped_key, boundaries>>

\* parse_log_line up to data_D[key] = record for a start line, whole for the
\* other lines.
LogParse ==
    /\ pc_log = "parse"
    /\ \E w \in {parse_log_line(Self, line)} :
          /\ data_D' = w.D
          /\ oldest_start_time' = w.oldest
          /\ newest_stop_time' = w.newest
          /\ _last_key' = w.last
          /\ exc' = w.exc
          /\ pc_log' = IF w.exc # NoError THEN "done"
                       ELSE IF line.kind = "start" THEN "append" ELSE "evict"
    /\ UNCHANGED <<history_H, lineno, line, ghosts, others, update_dropped_key, boundaries>>

\* history_H.append(key)
LogAppend ==
    /\ pc_log = "append"
    /\ history_H' = Append(history_H, line.key)
    /\ pc_log' = "evict"
    /\ UNCHANGED <<data_D, oldest_start_time, newest_stop_time, _last_key, exc,
                   lineno, line, ghosts, others, update_dropped_key, boundaries>>

\* update(): the loop test and history_H.popleft(); advance_records returns
\* when the span fits.
LogPop ==
    /\ pc_log = "evict"
    /\ IF ~span_exceeds(Self)
       THEN /\ pc_log' = "check"
            /\ boundaries' = boundaries \cup
                  {SummaryOf(oldest_start_time, newest_stop_time, history_H, data_D)}
            /\ UNCHANGED <<history_H, exc, update_dropped_key>>
       ELSE IF history_H = <<>>
       THEN /\ pc_log' = "done"
            /\ exc' = "IndexError"
            /\ UNCHANGED <<history_H, update_dropped_key, boundaries>>
       ELSE /\ update_dropped_key' = popleft(history_H)
            /\ history_H' = Tail(history_H)
            /\ pc_log' = "render"
            /\ UNCHANGED <<exc, boundaries>>
    /\ UNCHANGED <<data_D, oldest_start_time, newest_stop_time, _last_key,
                   lineno, line, ghosts, others>>

\* self.oldest_start_time = self.data_D.render_record(update_dropped_key, 'time_start')
LogRender ==
    /\ pc_log = "render"
    /\ IF Contains(data_D, update_dropped_key)
       THEN /\ oldest_start_time' = render_record(data_D, update_dropped_key, "time_start")
            /\ pc_log' = "delete"
            /\ UNCHANGED exc
       ELSE /\ exc' = "StoreError"
            /\ pc_log' = "done"
            /\ UNCHANGED oldest_start_time
    /\ UNCHANGED <<data_D, history_H, newest_stop_time, _last_key, lineno, line,
                   ghosts, others, update_dropped_key, boundaries>>

\* del self.data_D[update_dropped_key]
LogDelete ==
    /\ pc_log = "delete"
    /\ data_D' = Delete(data_D, update_dropped_key)
    /\ update_dropped_key' = None
    /\ pc_log' = "evict"
    /\ UNCHANGED <<history_H, oldest_start_time, newest_stop_time, _last_key, exc,
                   lineno, line, ghosts, others, boundaries>>

\* if signal.is_set(): break
LogCheck ==
    /\ pc_log = "check"
    /\ pc_log' = IF signal THEN "done" ELSE "wait"
    /\ UNCHANGED <<store, exc, lineno, line, ghosts, others, update_dropped_key, boundaries>>

LogStep == LogParse \/ LogAppend \/ LogPop \/ LogRender \/ LogDelete \/ LogCheck

log == <<store, exc, lineno, line, ghosts, pc_log, update_dropped_key, boundaries>>

\* while not signal.is_set():
PrintTop ==
    /\ pc_print = "top"
    /\ pc_print' = IF signal THEN "done" ELSE "span"
    /\ UNCHANGED <<log, signal, pc_main, lines, printed>>

\* tw.current_window_length_secs()
PrintSpan ==
    /\ pc_print = "span"
    /\ lines' = [NoSummary EXCEPT
                    !.span = current_window_length(oldest_start_time, newest_stop_time)]
    /\ pc_print' = "tam"
    /\ UNCHANGED <<log, signal, pc_main, printed>>

\* len(tw)
PrintTam ==
    /\ pc_print = "tam"
    /\ lines' = [lines EXCEPT !.tam = Len(history_H)]
    /\ pc_print' = "count"
    /\ UNCHANGED <<log, signal, pc_main, printed>>

\* len(tw.data_D.index_table.ilist), then print out_text
PrintCount ==
    /\ pc_print = "count"
    /\ printed' = [lines EXCEPT !.count = Count(data_D)]
    /\ lines' = NoSummary
    /\ pc_print' = "sleep"
    /\ UNCHANGED <<log, signal, pc_main>>

\* signal.wait(1) returns
PrintWake ==
    /\ pc_print = "sleep"
    /\ pc_print' = "top"
    /\ UNCHANGED <<log, signal, pc_main, lines, printed>>

PrintStep == PrintTop \/ PrintSpan \/ PrintTam \/ PrintCount \/ PrintWake

\* main: KeyboardInterrupt or SystemExit, threads_signal.set()
MainInterrupt ==
    /\ pc_main = "sleep"
    /\ signal' = TRUE
    /\ pc_main' = "join"
    /\ UNCHANGED <<log, pc_print, lines, printed>>

\* main: for thread in threads: thread.join()
MainJoin ==
    /\ pc_main = "join"
    /\ pc_log = "done" /\ pc_print = "done"
    /\ pc_main' = "done"
    /\ UNCHANGED <<log, signal, pc_print, lines, printed>>

NextThreads ==
    \/ LogRead
    \/ LogEof
    \/ LogParse
    \/ LogAppend
    \/ LogPop
    \/ LogRender
    \/ LogDelete
    \/ LogCheck
    \/ PrintTop
    \/ PrintSpan
    \/ PrintTam
    \/ PrintCount
    \/ PrintWake
    \/ MainInterrupt
    \/ MainJoin

\* Every thread that can take a step of its own eventually takes one; the
\* arrival of a line, the end of the input and the interrupt are not owed.
SpecThreads ==
    /\ Init
    /\ [][NextThreads]_vars
    /\ WF_vars(LogStep)
    /\ WF_vars(PrintStep)
    /\ WF_vars(MainJoin)

\* ------------------------------------------------------------------- claims
Rank(state) == CASE state = status_queued -> 0
                 [] state = status_exec -> 1
                 [] state = status_stop -> 2

Max(a, b) == IF a >= b THEN a ELSE b

\* Position of the first entry of key in H, 0 when it has none.
FirstPos(H, key) ==
    IF \E i \in 1..Len(H) : H[i] = key
    THEN CHOOSE i \in 1..Len(H) : H[i] = key /\ \A j \in 1..(i - 1) : H[j] # key
    ELSE 0

\* The Record Store as parse_log_line left it in the last call, before the
\* eviction pass of that call deleted anything.
AfterParse == IF dropped # <<>> THEN dropped[1].D ELSE data_D

EvictorRan == lineno > 0 /\ exc # "UnboundLocalError"

\* C1: window invariant. After an advance_records call has run the evictor,
\* the History Queue is empty or newest_stop_time - oldest_start_time is at
\* most the window length.
C1_WindowInvariant ==
    EvictorRan =>
        \/ history_H = <<>>
        \/ oldest_start_time # Inf /\ newest_stop_time - oldest_start_time <= window_length_V

\* C2: the eviction pass never pops from an empty History Queue; when the
\* queue is exhausted it stops normally.
C2_NoPopOnEmptyQueue == exc # "IndexError"

\* C3 (as claimed): the evictor never deletes a record B while a record A with
\* an earlier time_start is present in the Record Store.
C3_EvictionByStartTime ==
    \A i \in 1..Len(dropped) :
        \A A \in DOMAIN dropped[i].D :
            dropped[i].D[A].time_start >= dropped[i].D[dropped[i].key].time_start

\* C3 (amended): eviction follows the arrival order of the start lines. The
\* evictor deletes a record B only when B's earliest History Queue entry
\* precedes the earliest entry of every other record A present in the store.
C3_EvictionByArrival ==
    \A i \in 1..Len(dropped) :
        \A A \in DOMAIN dropped[i].D \ {dropped[i].key} :
            /\ FirstPos(dropped[i].H, dropped[i].key) # 0
            /\ FirstPos(dropped[i].H, A) # 0
            /\ FirstPos(dropped[i].H, dropped[i].key) < FirstPos(dropped[i].H, A)

\* C3 witness: the evictor deleted a record while another record, whose start
\* line arrived later, was present.
C3_Witness ==
    \E i \in 1..Len(dropped) :
        /\ Cardinality(DOMAIN dropped[i].D) >= 2
        /\ Len(dropped[i].H) >= 2

\* C4: trace correlation. After a start line for K, then lines none of which
\* is a keyed line for another id, then a failure trace, the record of K is
\* finished with finish_mode aborted and ingestion has not failed.
C4_TraceCorrelation ==
    corr.gap = 2 =>
        /\ exc = NoError
        /\ Contains(data_D, corr.key)
        /\ data_D[corr.key].state = status_stop
        /\ "finish_mode" \in DOMAIN data_D[corr.key]
        /\ data_D[corr.key].finish_mode = finish_error

\* C5: no ingested line stops ingestion; advance_records returns normally for
\* every line in every reachable state.
C5_IngestionNeverStops == exc = NoError

\* C6: in a step that keeps a record, its state does not move backward in the
\* order queued, executing, finished.
C6_StateOnlyAdvances ==
    [][\A k \in DOMAIN data_D \cap DOMAIN data_D' :
          Rank(data_D'[k].state) >= Rank(data_D[k].state)]_vars

\* C7: for every record in the Record Store, finish_mode is set if and only
\* if its state is finished.
C7_FinishModeIffFinished ==
    \A k \in DOMAIN data_D :
        ("finish_mode" \in DOMAIN data_D[k]) <=> (data_D[k].state = status_stop)

\* C8: stop finalization. A stop line with threads n, msecs m and timestamp t
\* for a key present in the Record Store sets threads_stop = n, msecs_stop = m,
\* state finished, finish_mode ok and time_stop = t on that record (and touches
\* no other field), and sets newest_stop_time to the maximum of its previous
\* value and t.
C8_StopFinalization ==
    [][(line'.kind = "stop" /\ Contains(data_D, line'.key)) =>
          /\ newest_stop_time' = Max(newest_stop_time, line'.ts)
          /\ Contains(AfterParse', line'.key)
          /\ AfterParse'[line'.key] =
                Merge(data_D[line'.key],
                      [threads_stop |-> line'.a, msecs_stop |-> line'.b,
                       state |-> status_stop, finish_mode |-> finish_normal,
                       time_stop |-> line'.ts])]_vars

\* C8 witness: a stop line has finished a retained record with a timestamp
\* older than the newest stop time, which was kept.
C8_Witness ==
    /\ line.kind = "stop"
    /\ Contains(data_D, line.key)
    /\ data_D[line.key].finish_mode = finish_normal
    /\ data_D[line.key].time_stop = line.ts
    /\ data_D[line.key].threads_stop = line.a
    /\ newest_stop_time > line.ts

\* C9: keepalive accumulation. The keepalives of every record in the store
\* equal the sum of the keepalive values applied to its key since the start
\* line that created it.
C9_KeepaliveAccumulation ==
    \A k \in DOMAIN data_D : data_D[k].keepalives = ka_sum[k]

\* C9 witness: keepalive lines with values 2 and 3 have given keepalives = 5.
C9_Witness ==
    /\ line.kind = "kaacq"
    /\ Contains(data_D, line.key)
    /\ data_D[line.key].keepalives = 5

\* C10: orphan tolerance. A keyed non-start event whose key is not in the
\* Record Store raises no error and leaves the Record Store, the History
\* Queue, newest_stop_time, oldest_start_time and the last active key
\* unchanged.
C10_OrphanTolerance ==
    [][(line'.kind \in UpdateKinds /\ ~Contains(data_D, line'.key)) =>
          /\ exc' = NoError
          /\ UNCHANGED <<data_D, history_H, newest_stop_time, oldest_start_time,
                         _last_key>>]_vars

\* C10 witness: an orphan stop line was ingested while another key had a
\* record and a last active key was set.
C10_Witness ==
    /\ line.kind = "stop"
    /\ ~Contains(data_D, line.key)
    /\ Count(data_D) >= 1
    /\ _last_key # None
    /\ exc = NoError

\* Number of History Queue entries the eviction pass of the last call popped:
\* one per deleted record, and one more when the pass failed on an absent key.
Popped == Len(dropped) + (IF exc = "StoreError" THEN 1 ELSE 0)

C13_DuplicateEntryTolerated == exc # "StoreError"

\* Smallest time_start among the records of a non-empty store.
MinStart(D) ==
    CHOOSE m \in {D[k].time_start : k \in DOMAIN D} :
        \A k \in DOMAIN D : m <= D[k].time_start

\* C14: after every advance_records call that leaves the Record Store
\* non-empty, oldest_start_time is the smallest time_start among the records
\* retained.
C14_OldestIsMinRetained ==
    (EvictorRan /\ data_D # <<>>) => oldest_start_time = MinStart(data_D)

\* C15: the last active key is the key of the most recent general-form line
\* that was matched and applied (a start line, or one of the ten update
\* patterns for a key in the store); every other line leaves it unchanged, a
\* line for a known key that matches no pattern included.
C15_LastKeyIsLastMatched ==
    [][exc' = NoError =>
          IF line'.kind = "start"
             \/ (line'.kind \in UpdateKinds /\ Contains(data_D, line'.key))
          THEN _last_key' = line'.key
          ELSE _last_key' = _last_key]_vars

\* C16: newest_stop_time never decreases, and changes only in a step that
\* finishes a record: a stop line for a key in the store, or a failure trace
\* correlated to a last active key.
C16_NewestStopOnlyByFinish ==
    [][/\ newest_stop_time' >= newest_stop_time
       /\ newest_stop_time' # newest_stop_time =>
             \/ line'.kind = "stop" /\ Contains(data_D, line'.key)
             \/ line'.kind = "trace" /\ _last_key # None]_vars

\* C16 witness: a stop line has set newest_stop_time and the eviction pass of
\* the same call, which deleted records, has left it there.
C16_Witness ==
    /\ line.kind = "stop"
    /\ dropped # <<>>
    /\ AfterParse[line.key].time_stop = newest_stop_time
    /\ newest_stop_time = line.ts
    /\ exc = NoError

\* C18: every key of the Record Store has an entry in the History Queue, and
\* the queue is at least as long as the store is large.
C18_StoreKeysAreQueued ==
    /\ \A k \in DOMAIN data_D : \E i \in 1..Len(history_H) : history_H[i] = k
    /\ Len(history_H) >= Count(data_D)

\* C18 witness: an eviction pass has deleted records and left one in the
\* store, still named by the queue.
C18_Witness ==
    /\ dropped # <<>>
    /\ exc = NoError
    /\ Count(data_D) >= 1
    /\ \A k \in DOMAIN data_D : \E i \in 1..Len(history_H) : history_H[i] = k

\* C19: whenever the last active key is set (and the watcher is still
\* ingesting), it names a record present in the Record Store.
C19_LastKeyInStore ==
    (exc = NoError /\ _last_key # None) => Contains(data_D, _last_key)

\* C12: cooperative shutdown. Once the cancellation signal is set, log_thread
\* and print_thread both eventually exit, also when log_thread is waiting for
\* a line that never arrives.
C12_ShutdownExits == signal ~> (pc_log = "done" /\ pc_print = "done")

\* C17: the summary print_thread prints is the summary of a state log_thread
\* was in at a line boundary.
C17_SummaryAtLineBoundary == printed # NoSummary => printed \in boundaries


=============================================================================
